---- MODULE Spec2Model ----
(***************************************************************************)
(* A model of the AI debate club back end:                                 *)
(*   - the debate pipeline (DebateManager's LangGraph state graph and its  *)
(*     eight node functions),                                              *)
(*   - the streaming session (StreamingDebateManager: the worker thread,   *)
(*     the timeout guard, the diff that feeds the update queue),           *)
(*   - its consumers (stream_debate's iterator and the page's script), and *)
(*   - the task scheduler (DebateWorkflow.execute_workflow).               *)
(* Python dicts are functions whose DOMAIN is the set of keys present;     *)
(* None is the string "None" for scalar fields and the empty dict for the  *)
(* session snapshot.  Texts are strings, "" being the empty text; the      *)
(* evaluation text is a sequence of tokens so that its parsing is a        *)
(* computation.                                                            *)
(***************************************************************************)
EXTENDS Integers, Sequences, FiniteSets, TLC

(***************************************************************************)
(* Bounds.                                                                 *)
(***************************************************************************)
\* num_rounds ranges over 1..MaxRounds (the UI's slider starts at 1).
MaxRounds == 2
\* start_debate_async starts at most MaxRuns workers in one session.
MaxRuns == 2
\* The per-task invocation counter saturates at MaxCalls.
MaxCalls == 2
\* The scores written in the evaluation texts given to the parser are 0..MaxScore.
MaxScore == 12

(***************************************************************************)
(* Python helpers.                                                         *)
(***************************************************************************)
None == "None"
EmptyDict == [k \in {} |-> ""]
\* d.get(k, default)
Get(d, k, default) == IF k \in DOMAIN d THEN d[k] ELSE default
\* d[k] = v on a copy of d
Put(d, k, v) == [x \in (DOMAIN d) \cup {k} |-> IF x = k THEN v ELSE d[x]]
\* the channel merge of a node's partial update into the graph state
Merge(s, u) == [k \in DOMAIN s |-> IF k \in DOMAIN u THEN u[k] ELSE s[k]]
Min(a, b) == IF a < b THEN a ELSE b
Abs(a) == IF a < 0 THEN 0 - a ELSE a
\* an exception raised by a collaborator call
Raise == "<raise>"

(***************************************************************************)
(* The evaluation text and its parsing (ScorekeeperAgent._parse_evaluation)*)
(* The lower-cased text is a sequence of tokens: the literals "pro" and    *)
(* "con", a colon, a number, the word "points", any other word, and any    *)
(* other character that is neither a word character nor white space.       *)
(***************************************************************************)
Tok(t, n) == [t |-> t, n |-> n]
TPro == Tok("pro", 0)
TCon == Tok("con", 0)
TColon == Tok("colon", 0)
TPoints == Tok("points", 0)
TWord == Tok("word", 0)
TPunct == Tok("punct", 0)
TNum(n) == Tok("num", n)
\* [\s\w] matches every character of these tokens
IsWordTok(tok) == tok.t \in {"pro", "con", "num", "points", "word"}

\* positions i+1..r: the longest run of [\s\w] tokens following position i
RunEnd(toks, i) ==
  LET stops == {j \in (i+1)..Len(toks) : ~IsWordTok(toks[j])}
  IN IF stops = {} THEN Len(toks)
     ELSE (CHOOSE j \in stops : \A k \in stops : j <= k) - 1

\* "[\s\w]*points?" matches somewhere after position k, inside the run ending at r
PointsAfter(toks, k, r) == \E m \in (k+1)..r : toks[m].t = "points"

\* The number captured by side[\s\w]*:?\s*(\d+)[\s\w]*points? when the match
\* starts at position i (toks[i] is the side's literal), or -1.  The greedy
\* [\s\w]* first takes the whole run: the match then needs a colon and a number
\* right after it, captured whole.  Backtracking, it gives back as little as it
\* can: the last digit of the last number of the run that "points" follows.
MatchAt(toks, i) ==
  LET r == RunEnd(toks, i)
      colon == /\ r + 2 <= Len(toks)
               /\ toks[r+1].t = "colon"
               /\ toks[r+2].t = "num"
               /\ PointsAfter(toks, r + 2, RunEnd(toks, r + 1))
      cands == {k \in (i+1)..r : toks[k].t = "num" /\ PointsAfter(toks, k, r)}
  IN IF colon THEN toks[r+2].n
     ELSE IF cands # {}
          THEN toks[CHOOSE k \in cands : \A j \in cands : j <= k].n % 10
          ELSE 0 - 1

\* re.search: the leftmost position where the pattern matches; -1 when none
Search(toks, side) ==
  LET hits == {i \in 1..Len(toks) : toks[i].t = side /\ MatchAt(toks, i) >= 0}
  IN IF hits = {} THEN 0 - 1
     ELSE MatchAt(toks, CHOOSE i \in hits : \A j \in hits : i <= j)

WinnerHigher(pro_score, con_score) ==
  IF pro_score = con_score THEN "Tie"
  ELSE IF pro_score > con_score THEN "Pro" ELSE "Con"

Winner(pro_score, con_score) ==
  IF Abs(pro_score - con_score) <= 5 THEN "Tie"
  ELSE IF pro_score > con_score THEN "Pro" ELSE "Con"

_parse_evaluation(evaluation) ==
  LET pro_match == Search(evaluation, "pro")
      con_match == Search(evaluation, "con")
      pro_score == IF pro_match >= 0 THEN pro_match ELSE 0
      con_score == IF con_match >= 0 THEN con_match ELSE 0
  IN [pro_score |-> pro_score, con_score |-> con_score,
      winner |-> Winner(pro_score, con_score)]

(***************************************************************************)
(* The collaborators' answers.  Each call of the model answers with a text *)
(* of its kind's set or raises; the fact checker's own call raises when    *)
(* its answer is Raise.                                                    *)
(***************************************************************************)
EvalEmpty == <<>>
EvalProWins == <<TPro, TColon, TNum(82), TPoints, TPunct, TCon, TColon, TNum(75), TPoints>>
EvalTie == <<TPro, TColon, TNum(80), TPoints, TPunct, TCon, TColon, TNum(77), TPoints>>
EvalConWins == <<TWord, TPunct, TCon, TWord, TColon, TNum(90), TPoints, TPunct, TPro, TColon, TNum(40), TPoints>>
EvalNoScore == <<TWord, TPro, TWord, TPunct, TCon, TWord>>
\* no colon: each pattern captures the last digit of the number only
EvalLastDigit == <<TPro, TWord, TNum(82), TPoints, TPunct, TCon, TWord, TNum(75), TPoints>>
EvalTexts == {EvalEmpty, EvalProWins, EvalTie, EvalConWins, EvalNoScore, EvalLastDigit}

\* every answer the model can give: the pipeline run on its own draws from these
FullScript ==
  [introduction |-> {"", "i"},
   pro_argument |-> {"", "a", "b"},
   con_argument |-> {"", "a"},
   fact_check |-> {"f", Raise},
   pro_conclusion |-> {"", "c"},
   con_conclusion |-> {"", "c"},
   evaluation |-> EvalTexts]

(***************************************************************************)
(* The pipeline state (DebateManager.run_debate's initial_state).          *)
(***************************************************************************)
InitialState(num_rounds) ==
  [topic |-> "topic", background_info |-> "background",
   max_rounds |-> num_rounds, current_round |-> 0,
   introduction |-> "", rounds |-> <<>>,
   pro_conclusion |-> "", con_conclusion |-> "",
   evaluation |-> EvalEmpty, winner |-> None,
   pro_score |-> 0, con_score |-> 0]

RoundFields == <<"pro_argument", "pro_fact_check", "con_argument", "con_fact_check">>

(***************************************************************************)
(* The node functions.  Each returns the update it hands back to the graph *)
(* (a dict holding the keys it writes).                                    *)
(***************************************************************************)
\* DebateSetter.set_debate: writes the introduction into the state it was
\* given and returns that whole state.
set_debate(s, content) == [s EXCEPT !.introduction = content]

\* DebaterAgent.generate_argument, stance being "pro" or "con".
generate_argument(s, stance, content) ==
  LET current_round == s.current_round
      rounds == IF current_round >= Len(s.rounds)
                THEN Append(s.rounds, EmptyDict) ELSE s.rounds
      updated_rounds == IF current_round >= Len(rounds)
                        THEN Append(rounds, EmptyDict) ELSE rounds
      arg_key == IF stance = "pro" THEN "pro_argument" ELSE "con_argument"
      current_round_data == Put(updated_rounds[current_round + 1], arg_key, content)
  IN [rounds |-> [updated_rounds EXCEPT ![current_round + 1] = current_round_data]]

\* updated_rounds[current_round] raises IndexError past the two appends
ArgumentIndexError(s) == s.current_round > Len(s.rounds) + 1

check_facts_unguarded(outcome) == outcome

\* FactChecker.check_facts: an exception of the model call becomes a text
check_facts(outcome) ==
  IF outcome = Raise THEN "Error in fact checking" ELSE outcome

HasArgumentKey(s, arg_key) ==
  /\ s.current_round < Len(s.rounds)
  /\ arg_key \in DOMAIN s.rounds[s.current_round + 1]

\* whether fact_check_pro / fact_check_con reach the fact checker
HasArgument(s, arg_key) ==
  /\ s.current_round < Len(s.rounds)
  /\ Get(s.rounds[s.current_round + 1], arg_key, "") # ""

fact_check_pro_advancing(s, outcome) ==
  IF HasArgument(s, "pro_argument")
  THEN [rounds |-> [s.rounds EXCEPT ![s.current_round + 1] =
                       Put(@, "pro_fact_check", check_facts(outcome))],
        current_round |-> s.current_round + 1]
  ELSE EmptyDict

\* DebateManager.fact_check_pro
fact_check_pro(s, outcome) ==
  IF HasArgument(s, "pro_argument")
  THEN [rounds |-> [s.rounds EXCEPT ![s.current_round + 1] =
                       Put(@, "pro_fact_check", check_facts(outcome))]]
  ELSE EmptyDict

\* DebateManager.fact_check_con
fact_check_con(s, outcome) ==
  IF HasArgument(s, "con_argument")
  THEN [rounds |-> [s.rounds EXCEPT ![s.current_round + 1] =
                       Put(@, "con_fact_check", check_facts(outcome))],
        current_round |-> s.current_round + 1]
  ELSE EmptyDict

_check_round_completion_inclusive(s) ==
  IF s.current_round <= s.max_rounds
  THEN "generate_pro_argument" ELSE "pro_conclusion_node"

\* DebateManager._check_round_completion, as the node it routes to
_check_round_completion(s) ==
  IF s.current_round < s.max_rounds
  THEN "generate_pro_argument" ELSE "pro_conclusion_node"

\* DebaterAgent.generate_conclusion
generate_conclusion(s, stance, content) ==
  IF stance = "pro" THEN [pro_conclusion |-> content]
  ELSE [con_conclusion |-> content]

\* ScorekeeperAgent.evaluate_debate
evaluate_debate(s, evaluation) ==
  LET parsed == _parse_evaluation(evaluation)
  IN [evaluation |-> evaluation, pro_score |-> parsed.pro_score,
      con_score |-> parsed.con_score, winner |-> parsed.winner]

(***************************************************************************)
(* The streaming session's diff                                            *)
(* (StreamingDebateManager._queue_state_updates) as the sequence of its     *)
(* writes: an assignment to _current_phase or a put on the update queue.   *)
(***************************************************************************)
SetPhase(p) == [op |-> "phase", phase |-> p]
PutEvent(ev) == [op |-> "put", event |-> ev]
RoundPhase(i) == "round_" \o ToString(i)

\* the events of one round (new_rounds[i]; i counts from 0 as enumerate does)
RoundUpdates(old_rounds, new_rounds, i) ==
  LET round_data == new_rounds[i + 1]
      started == i >= Len(old_rounds)
      Changed(update_type) ==
        /\ update_type \in DOMAIN round_data
        /\ \/ started
           \/ round_data[update_type] # Get(old_rounds[i + 1], update_type, "")
      types == SelectSeq(RoundFields, Changed)
      puts == [k \in 1..Len(types) |->
                 PutEvent([type |-> types[k], round |-> i + 1,
                           content |-> round_data[types[k]]])]
  IN (IF started THEN <<SetPhase(RoundPhase(i + 1))>> ELSE <<>>) \o puts

RECURSIVE RoundsUpdates(_, _, _)
RoundsUpdates(old_rounds, new_rounds, i) ==
  IF i >= Len(new_rounds) THEN <<>>
  ELSE RoundUpdates(old_rounds, new_rounds, i)
         \o RoundsUpdates(old_rounds, new_rounds, i + 1)

IntroductionUpdates(old_state, new_state) ==
  IF old_state.introduction # new_state.introduction /\ new_state.introduction # ""
  THEN <<SetPhase("introduction"),
         PutEvent([type |-> "introduction", content |-> new_state.introduction])>>
  ELSE <<>>

ConclusionUpdates(old_state, new_state, conclusion_type) ==
  IF new_state[conclusion_type] # "" /\ new_state[conclusion_type] # old_state[conclusion_type]
  THEN <<SetPhase(conclusion_type),
         PutEvent([type |-> conclusion_type, content |-> new_state[conclusion_type]])>>
  ELSE <<>>

EvaluationUpdates(old_state, new_state) ==
  IF new_state.evaluation # EvalEmpty /\ new_state.evaluation # old_state.evaluation
  THEN <<SetPhase("evaluation"),
         PutEvent([type |-> "evaluation", content |-> new_state.evaluation,
                   winner |-> new_state.winner, pro_score |-> new_state.pro_score,
                   con_score |-> new_state.con_score])>>
  ELSE <<>>

_queue_state_updates_conclusions_first(old_state, new_state) ==
  IntroductionUpdates(old_state, new_state)
    \o ConclusionUpdates(old_state, new_state, "pro_conclusion")
    \o ConclusionUpdates(old_state, new_state, "con_conclusion")
    \o RoundsUpdates(old_state.rounds, new_state.rounds, 0)
    \o EvaluationUpdates(old_state, new_state)

_queue_state_updates(old_state, new_state) ==
  IntroductionUpdates(old_state, new_state)
    \o RoundsUpdates(old_state.rounds, new_state.rounds, 0)
    \o ConclusionUpdates(old_state, new_state, "pro_conclusion")
    \o ConclusionUpdates(old_state, new_state, "con_conclusion")
    \o EvaluationUpdates(old_state, new_state)

\* the events a sequence of writes puts on the queue, in order
Events(updates) ==
  LET IsPut(u) == u.op = "put"
      puts == SelectSeq(updates, IsPut)
  IN [k \in 1..Len(puts) |-> puts[k].event]

\* _current_phase after a sequence of writes
LastPhase(updates, phase) ==
  LET IsPhase(u) == u.op = "phase"
      phases == SelectSeq(updates, IsPhase)
  IN IF phases = <<>> THEN phase ELSE phases[Len(phases)].phase

\* Python's truth value of a dict or None
Truthy(d) == DOMAIN d # {}

(***************************************************************************)
(* The answers of the model in a streaming session: one text per kind of   *)
(* call, the same through the session.                                     *)
(***************************************************************************)
PlainScript ==
  [introduction |-> {"i"}, pro_argument |-> {"a"}, con_argument |-> {"a"},
   fact_check |-> {"f"}, pro_conclusion |-> {"c"}, con_conclusion |-> {"c"},
   evaluation |-> {EvalProWins}]

SessionScripts ==
  {PlainScript,
   [PlainScript EXCEPT !.introduction = {""}],
   [PlainScript EXCEPT !.pro_argument = {""}],
   [PlainScript EXCEPT !.con_argument = {""}],
   [PlainScript EXCEPT !.pro_conclusion = {""}, !.con_conclusion = {""}],
   [PlainScript EXCEPT !.evaluation = {EvalEmpty}],
   [PlainScript EXCEPT !.fact_check = {Raise}],
   [PlainScript EXCEPT !.evaluation = {EvalTie, EvalLastDigit}]}

(***************************************************************************)
(* State.                                                                  *)
(***************************************************************************)
VARIABLES
  llm,      \* the answers the model can give, per kind of call
  state,    \* the graph's state of the pipeline execution in progress
  node,     \* the node that runs next; "idle", "END" or "raised" otherwise
  \* StreamingDebateManager's fields
  num_rounds,
  debate_state,       \* EmptyDict is None
  _debate_complete,
  _current_phase,
  _error_state,
  _start_time,        \* None or "set"
  _update_queue,
  \* the threads of the session
  wpc,      \* _debate_thread: "none" before the first start, "dead" once over
  tpc,      \* _run_with_timeout's thread: "none", "started", "invoking", "dead"
  box,      \* _run_with_timeout's nonlocal result and exception
  zombies,  \* threads of _run_with_timeout left running by an expired join
  \* what has happened so far
  runs,       \* workers started
  outcome,    \* how the latest worker's run went
  emitted,    \* every event put on the queue, with the run that put it
  delivered,  \* every event get_updates has returned, in order
  \* a consumer's call of get_updates
  gpc,        \* "none", or "loop" inside the call
  drained,    \* the call's local list updates
  \* a consumer's iteration of stream_debate
  spc,        \* "none", "test", "compare", "body", "final" or "done"
  last_state, \* the iterator's local last_state; EmptyDict is None
  \* the page's script (app.py) and its session state
  upc,           \* "none", "status", "updates", "for", "refresh" or "done"
  ui_status,     \* the pass's local status
  new_updates,   \* the pass's local new_updates, what is left to loop over
  debate_phases, \* st.session_state.debate_phases
  \* DebateWorkflow: tasks[name].dependencies, .status, .error, .start_time
  dependencies,
  status,
  error,
  start_time,
  context,               \* the keys of self.context
  \* execute_workflow's frame
  fpc,                   \* "entry", "loop", "gather" or "returned"
  pending_tasks,
  completed_task_names,
  tasks_to_execute,
  results,               \* per task of the batch: created, running, ok, exception
  \* what has happened so far
  calls,                 \* invocations of each task's work (up to MaxCalls)
  ever_failed,           \* the tasks whose work has raised
  deadlock_logged,       \* "Deadlock detected in workflow execution" was logged
  \* LLMAPIClient.generate_arguments under its retry decorator
  cpc,                   \* "idle", "attempt", "waiting", "returned" or "raised"
  attempts,              \* how each attempt made so far ended
  propagated             \* the exception the call raised to its caller

pipeVars == <<state, node>>
fieldVars == <<debate_state, _debate_complete, _current_phase, _error_state,
               _start_time, _update_queue>>
threadVars == <<wpc, tpc, box, zombies>>
historyVars == <<runs, outcome, emitted, delivered>>
streamVars == <<spc, last_state>>
uiVars == <<upc, ui_status, new_updates, debate_phases>>
consumerVars == <<gpc, drained, streamVars, uiVars>>
sessVars == <<num_rounds, fieldVars, threadVars, historyVars, consumerVars>>
taskVars == <<status, error, start_time, context>>
frameVars == <<fpc, pending_tasks, completed_task_names, tasks_to_execute, results>>
flowHistoryVars == <<calls, ever_failed, deadlock_logged>>
flowVars == <<dependencies, taskVars, frameVars, flowHistoryVars>>
clientVars == <<cpc, attempts, propagated>>
vars == <<llm, pipeVars, sessVars, flowVars, clientVars>>
otherThanPipe == <<llm, sessVars, flowVars, clientVars>>

(***************************************************************************)
(* The pipeline: one action per node of _create_debate_graph, the edge     *)
(* that follows the node being part of the node's step.                    *)
(***************************************************************************)
\* the node's model call raises: invoke propagates the exception
Raises(n) == node = n /\ node' = "raised" /\ state' = state
\* the node returns update u, which the graph merges; the edge leads to next
Writes(n, u, next) == node = n /\ state' = Merge(state, u) /\ node' = next

SetDebate ==
  /\ \/ Raises("set_debate")
     \/ \E r \in llm.introduction :
          Writes("set_debate", set_debate(state, r), "generate_pro_argument")
  /\ UNCHANGED otherThanPipe

GenerateProArgument ==
  /\ \/ Raises("generate_pro_argument")
     \/ \E r \in llm.pro_argument :
          IF ArgumentIndexError(state) THEN Raises("generate_pro_argument")
          ELSE Writes("generate_pro_argument",
                      generate_argument(state, "pro", r), "check_pro_facts")
  /\ UNCHANGED otherThanPipe

CheckProFacts ==
  /\ \E r \in llm.fact_check :
       Writes("check_pro_facts", fact_check_pro(state, r), "generate_con_argument")
  /\ UNCHANGED otherThanPipe

GenerateConArgument ==
  /\ \/ Raises("generate_con_argument")
     \/ \E r \in llm.con_argument :
          IF ArgumentIndexError(state) THEN Raises("generate_con_argument")
          ELSE Writes("generate_con_argument",
                      generate_argument(state, "con", r), "check_con_facts")
  /\ UNCHANGED otherThanPipe

CheckConFacts ==
  /\ \E r \in llm.fact_check :
       LET u == fact_check_con(state, r)
       IN Writes("check_con_facts", u, _check_round_completion(Merge(state, u)))
  /\ UNCHANGED otherThanPipe

ProConclusion ==
  /\ \/ Raises("pro_conclusion_node")
     \/ \E r \in llm.pro_conclusion :
          Writes("pro_conclusion_node",
                 generate_conclusion(state, "pro", r), "con_conclusion_node")
  /\ UNCHANGED otherThanPipe

ConConclusion ==
  /\ \/ Raises("con_conclusion_node")
     \/ \E r \in llm.con_conclusion :
          Writes("con_conclusion_node",
                 generate_conclusion(state, "con", r), "evaluate_debate")
  /\ UNCHANGED otherThanPipe

EvaluateDebate ==
  /\ \/ Raises("evaluate_debate")
     \/ \E r \in llm.evaluation :
          Writes("evaluate_debate", evaluate_debate(state, r), "END")
  /\ UNCHANGED otherThanPipe

NodeStep ==
  \/ SetDebate
  \/ GenerateProArgument
  \/ CheckProFacts
  \/ GenerateConArgument
  \/ CheckConFacts
  \/ ProConclusion
  \/ ConConclusion
  \/ EvaluateDebate

(***************************************************************************)
(* DebateManager.run_debate: the pipeline run on its own.                  *)
(***************************************************************************)
NoBox == [result |-> EmptyDict, exception |-> FALSE]

InitFields ==
  /\ debate_state = EmptyDict
  /\ _debate_complete = FALSE
  /\ _current_phase = None
  /\ _error_state = None
  /\ _start_time = None
  /\ _update_queue = <<>>
  /\ wpc = "none"
  /\ tpc = "none"
  /\ box = NoBox
  /\ zombies = 0
  /\ runs = 0
  /\ outcome = "none"
  /\ emitted = <<>>
  /\ delivered = <<>>
  /\ gpc = "none"
  /\ drained = <<>>
  /\ spc = "none"
  /\ last_state = EmptyDict
  /\ upc = "none"
  /\ ui_status = EmptyDict
  /\ new_updates = <<>>
  /\ debate_phases = <<>>

\* no workflow: the scheduler is not part of a debate
InitNoFlow ==
  /\ dependencies = EmptyDict
  /\ status = EmptyDict
  /\ error = EmptyDict
  /\ start_time = EmptyDict
  /\ context = {}
  /\ fpc = "returned"
  /\ pending_tasks = <<>>
  /\ completed_task_names = {}
  /\ tasks_to_execute = <<>>
  /\ results = EmptyDict
  /\ calls = EmptyDict
  /\ ever_failed = {}
  /\ deadlock_logged = FALSE

\* no call of generate_arguments has been made
InitNoCall ==
  /\ cpc = "idle"
  /\ attempts = <<>>
  /\ propagated = None

InitPipeline ==
  /\ llm = FullScript
  /\ num_rounds \in 1..MaxRounds
  /\ state = InitialState(num_rounds)
  /\ node = "set_debate"
  /\ InitFields
  /\ InitNoFlow
  /\ InitNoCall

SpecPipeline == InitPipeline /\ [][NodeStep]_vars

(***************************************************************************)
(* ScorekeeperAgent.evaluate_debate on its own: the pipeline at the        *)
(* evaluate_debate node, the model answering with any of the texts below.  *)
(***************************************************************************)
\* "Pro: p points. Con: c points"
ScoredText(p, c) ==
  <<TPro, TColon, TNum(p), TPoints, TPunct, TCon, TColon, TNum(c), TPoints>>
\* "Pro scored p points. Con scored c points"
LooseText(p, c) ==
  <<TPro, TWord, TNum(p), TPoints, TPunct, TCon, TWord, TNum(c), TPoints>>
\* "Pro: p points"
HalfText(p) == <<TPro, TColon, TNum(p), TPoints>>

ParseTexts ==
  EvalTexts
    \cup {ScoredText(p, c) : p, c \in 0..MaxScore}
    \cup {LooseText(p, c) : p, c \in 0..MaxScore}
    \cup {HalfText(p) : p \in 0..MaxScore}

\* the state a one-round debate hands to evaluate_debate
DebatedState ==
  [InitialState(1) EXCEPT
     !.introduction = "i",
     !.rounds = <<[pro_argument |-> "a", pro_fact_check |-> "f",
                   con_argument |-> "a", con_fact_check |-> "f"]>>,
     !.current_round = 1,
     !.pro_conclusion = "c",
     !.con_conclusion = "c"]

InitParse ==
  /\ llm = [PlainScript EXCEPT !.evaluation = ParseTexts]
  /\ num_rounds = 1
  /\ state = DebatedState
  /\ node = "evaluate_debate"
  /\ InitFields
  /\ InitNoFlow
  /\ InitNoCall

SpecParse == InitParse /\ [][EvaluateDebate]_vars

(***************************************************************************)
(* The streaming session.                                                  *)
(***************************************************************************)
\* threading.Thread.is_alive of _debate_thread
WorkerAlive == wpc \notin {"none", "dead"}

\* StreamingDebateManager.start_debate_async, a run being active: returns
StartWhileRunning ==
  /\ WorkerAlive
  /\ UNCHANGED vars

\* StreamingDebateManager.start_debate_async otherwise: starts a worker
StartDebateAsync ==
  /\ ~WorkerAlive
  /\ runs < MaxRuns
  /\ _debate_complete' = FALSE
  /\ wpc' = "begin"
  /\ runs' = runs + 1
  /\ outcome' = "none"
  /\ UNCHANGED <<clientVars, flowVars, llm, pipeVars, num_rounds, debate_state, _current_phase,
                 _error_state, _start_time, _update_queue, tpc, box, zombies, emitted, delivered,
                 consumerVars>>

\* _run_debate_thread: self._start_time = time.time()
WorkerBegin ==
  /\ wpc = "begin"
  /\ _start_time' = "set"
  /\ wpc' = "compile"
  /\ UNCHANGED <<clientVars, flowVars, llm, pipeVars, num_rounds, debate_state, _debate_complete,
                 _current_phase, _error_state, _update_queue, tpc, box, zombies, historyVars, consumerVars>>

\* _run_debate_thread: app = self.graph.compile(), which may raise
WorkerCompile ==
  /\ wpc = "compile"
  /\ \/ wpc' = "init_state" /\ outcome' = outcome
     \/ wpc' = "init_error" /\ outcome' = "init_error"
  /\ UNCHANGED <<clientVars, flowVars, llm, pipeVars, num_rounds, fieldVars, tpc, box, zombies,
                 runs, emitted, delivered,
                 consumerVars>>

\* _run_debate_thread: the snapshot and the phase set under the lock
WorkerInitState ==
  /\ wpc = "init_state"
  /\ debate_state' = InitialState(num_rounds)
  /\ _current_phase' = "initializing"
  /\ wpc' = "spawn"
  /\ UNCHANGED <<clientVars, flowVars, llm, pipeVars, num_rounds, _debate_complete, _error_state,
                 _start_time, _update_queue, tpc, box, zombies, historyVars, consumerVars>>

\* _run_with_timeout: the thread is created and started, then joined
WorkerSpawn ==
  /\ wpc = "spawn"
  /\ box' = NoBox
  /\ tpc' = "started"
  /\ wpc' = "join"
  /\ UNCHANGED <<clientVars, flowVars, llm, pipeVars, num_rounds, fieldVars, zombies, historyVars, consumerVars>>

\* _run_with_timeout.target: the phase, then func() = app.invoke(initial_state)
WorkBegin ==
  /\ tpc = "started"
  /\ _current_phase' = "executing"
  /\ tpc' = "invoking"
  /\ state' = InitialState(num_rounds)
  /\ node' = "set_debate"
  /\ UNCHANGED <<clientVars, flowVars, llm, num_rounds, debate_state, _debate_complete, _error_state,
                 _start_time, _update_queue, wpc, box, zombies, historyVars, consumerVars>>

\* target: result = func(), the graph having reached END (the graph's state
\* ends with the call)
WorkReturn ==
  /\ tpc = "invoking"
  /\ node = "END"
  /\ box' = [result |-> state, exception |-> FALSE]
  /\ tpc' = "dead"
  /\ node' = "idle"
  /\ state' = InitialState(num_rounds)
  /\ UNCHANGED <<clientVars, flowVars, llm, num_rounds, fieldVars, wpc, zombies, historyVars, consumerVars>>

\* target: except Exception as e: exception = e
WorkRaise ==
  /\ tpc = "invoking"
  /\ node = "raised"
  /\ box' = [result |-> EmptyDict, exception |-> TRUE]
  /\ tpc' = "dead"
  /\ node' = "idle"
  /\ state' = InitialState(num_rounds)
  /\ UNCHANGED <<clientVars, flowVars, llm, num_rounds, fieldVars, wpc, zombies, historyVars, consumerVars>>

\* the phase _run_with_timeout leaves when the join expires
ExpiredPhaseKept == _current_phase
ExpiredPhase == "timeout"

\* _run_with_timeout: join(timeout) expires with the thread alive.  The thread
\* is left running its pipeline: it writes nothing but its own locals from
\* here on.  (The deadline is 600 s: the thread has made its first assignment.)
JoinTimeout ==
  /\ wpc = "join"
  /\ tpc = "invoking"
  /\ _current_phase' = ExpiredPhase
  /\ wpc' = "timed_out"
  /\ outcome' = "timeout"
  /\ zombies' = zombies + 1
  /\ tpc' = "none"
  /\ node' = "idle"
  /\ state' = InitialState(num_rounds)
  /\ UNCHANGED <<clientVars, flowVars, llm, num_rounds, debate_state, _debate_complete, _error_state,
                 _start_time, _update_queue, box, runs, emitted, delivered,
                 consumerVars>>

\* a thread left running ends
ZombieExit ==
  /\ zombies > 0
  /\ zombies' = zombies - 1
  /\ UNCHANGED <<clientVars, flowVars, llm, pipeVars, num_rounds, fieldVars, wpc, tpc, box, historyVars, consumerVars>>

\* _run_with_timeout: the thread has ended; its exception is raised again or
\* its result returned to _run_debate_thread
JoinDone ==
  /\ wpc = "join"
  /\ tpc = "dead"
  /\ IF box.exception
     THEN wpc' = "exec_error" /\ outcome' = "exec_error"
     ELSE IF Truthy(box.result)
     THEN wpc' = "diff" /\ outcome' = "success"
     ELSE wpc' = "timed_out" /\ outcome' = "timeout"
  /\ UNCHANGED <<clientVars, flowVars, llm, pipeVars, num_rounds, fieldVars, tpc, box, zombies, runs,
                 emitted, delivered,
                 consumerVars>>

\* _run_debate_thread: self._queue_state_updates(tracked_state, result), the
\* writes of the diff made in their order
WorkerDiff ==
  /\ wpc = "diff"
  /\ LET updates == _queue_state_updates(InitialState(num_rounds), box.result)
         events == Events(updates)
     IN /\ _current_phase' = LastPhase(updates, _current_phase)
        /\ _update_queue' = _update_queue \o events
        /\ emitted' = emitted \o [k \in 1..Len(events) |->
                                     [event |-> events[k], run |-> runs]]
  /\ wpc' = "publish"
  /\ UNCHANGED <<clientVars, flowVars, llm, pipeVars, num_rounds, debate_state, _debate_complete,
                 _error_state, _start_time, tpc, box, zombies, runs,
                 outcome, delivered,
                 consumerVars>>

WorkerPublishFlagOnly ==
  /\ wpc = "publish"
  /\ _debate_complete' = TRUE
  /\ wpc' = "finally"
  /\ UNCHANGED <<clientVars, flowVars, llm, pipeVars, num_rounds, debate_state, _current_phase,
                 _error_state, _start_time, _update_queue, tpc, box, zombies, historyVars,
                 consumerVars>>

\* _run_debate_thread: the result published under the lock
WorkerPublish ==
  /\ wpc = "publish"
  /\ debate_state' = box.result
  /\ _debate_complete' = TRUE
  /\ wpc' = "finally"
  /\ UNCHANGED <<clientVars, flowVars, llm, pipeVars, num_rounds, _current_phase, _error_state,
                 _start_time, _update_queue, tpc, box, zombies, historyVars, consumerVars>>

\* _run_debate_thread: else: self._error_state = "Debate timed out"
WorkerTimedOut ==
  /\ wpc = "timed_out"
  /\ _error_state' = "Debate timed out"
  /\ wpc' = "finally"
  /\ UNCHANGED <<clientVars, flowVars, llm, pipeVars, num_rounds, debate_state, _debate_complete,
                 _current_phase, _start_time, _update_queue, tpc, box, zombies, historyVars, consumerVars>>

WorkerExecErrorSwallowed ==
  /\ wpc = "exec_error"
  /\ wpc' = "finally"
  /\ UNCHANGED <<clientVars, flowVars, llm, pipeVars, num_rounds, fieldVars, tpc, box, zombies,
                 historyVars, consumerVars>>

\* _run_debate_thread: the inner except
WorkerExecError ==
  /\ wpc = "exec_error"
  /\ _error_state' = "Error in debate execution"
  /\ _debate_complete' = TRUE
  /\ wpc' = "finally"
  /\ UNCHANGED <<clientVars, flowVars, llm, pipeVars, num_rounds, debate_state, _current_phase,
                 _start_time, _update_queue, tpc, box, zombies, historyVars, consumerVars>>

\* _run_debate_thread: the outer except
WorkerInitError ==
  /\ wpc = "init_error"
  /\ _error_state' = "Error initializing debate"
  /\ _debate_complete' = TRUE
  /\ wpc' = "finally"
  /\ UNCHANGED <<clientVars, flowVars, llm, pipeVars, num_rounds, debate_state, _current_phase,
                 _start_time, _update_queue, tpc, box, zombies, historyVars, consumerVars>>

\* the completion flag as the finally clause leaves it
FinallySkipped == _debate_complete
FinallyComplete == TRUE

\* _run_debate_thread: finally: self._debate_complete = True; the thread ends
WorkerFinally ==
  /\ wpc = "finally"
  /\ _debate_complete' = FinallyComplete
  /\ wpc' = "dead"
  /\ UNCHANGED <<clientVars, flowVars, llm, pipeVars, num_rounds, debate_state, _current_phase,
                 _error_state, _start_time, _update_queue, tpc, box, zombies, historyVars, consumerVars>>

\* the worker's steps made inside "with self._debate_lock:"
LockHeld == wpc \in {"init_state", "publish"}

\* StreamingDebateManager.get_updates: updates = []
GetUpdatesBegin ==
  /\ gpc = "none"
  /\ gpc' = "loop"
  /\ drained' = <<>>
  /\ UNCHANGED <<clientVars, flowVars, llm, pipeVars, num_rounds, fieldVars, threadVars, historyVars,
                 streamVars, uiVars>>

QueueKept(queue) == queue
\* Queue.get(block=False) takes the head off the queue
QueueGet(queue) == Tail(queue)

\* get_updates: the queue is not empty: update = get(block=False), appended
GetUpdatesGet ==
  /\ gpc = "loop"
  /\ _update_queue # <<>>
  /\ drained' = Append(drained, Head(_update_queue))
  /\ _update_queue' = QueueGet(_update_queue)
  /\ UNCHANGED <<clientVars, flowVars, llm, pipeVars, num_rounds, debate_state, _debate_complete,
                 _current_phase, _error_state, _start_time, threadVars, historyVars, gpc,
                 streamVars, uiVars>>

\* get_updates: the queue is empty: return updates
GetUpdatesReturn ==
  /\ gpc = "loop"
  /\ _update_queue = <<>>
  /\ delivered' = delivered \o drained
  /\ drained' = <<>>
  /\ gpc' = "none"
  /\ UNCHANGED <<clientVars, flowVars, llm, pipeVars, num_rounds, fieldVars, threadVars, runs,
                 outcome, emitted, streamVars, uiVars>>

\* StreamingDebateManager.get_updates
GetUpdates ==
  \/ GetUpdatesBegin
  \/ GetUpdatesGet
  \/ GetUpdatesReturn

\* StreamingDebateManager.get_current_state: the snapshot, or a placeholder
\* while debate_state is unset
get_current_state ==
  IF Truthy(debate_state) THEN debate_state
  ELSE [topic |-> "topic", status |-> "Initializing..."]

\* StreamingDebateManager.get_debate_status
get_debate_status ==
  [complete |-> _debate_complete, current_phase |-> _current_phase,
   error |-> _error_state, has_updates |-> _update_queue # <<>>]

\* the work thread of the session running the pipeline's nodes
WorkInvoke == tpc = "invoking" /\ NodeStep

Worker ==
  \/ WorkerBegin
  \/ WorkerCompile
  \/ WorkerInitState
  \/ WorkerSpawn
  \/ JoinTimeout
  \/ JoinDone
  \/ WorkerDiff
  \/ WorkerPublish
  \/ WorkerTimedOut
  \/ WorkerExecError
  \/ WorkerInitError
  \/ WorkerFinally

Work ==
  \/ WorkBegin
  \/ WorkInvoke
  \/ WorkReturn
  \/ WorkRaise

NextSession ==
  \/ StartWhileRunning
  \/ StartDebateAsync
  \/ Worker
  \/ Work
  \/ ZombieExit
  \/ GetUpdates

InitSession ==
  /\ llm \in SessionScripts
  /\ num_rounds \in 1..MaxRounds
  /\ state = InitialState(num_rounds)
  /\ node = "idle"
  /\ InitFields
  /\ InitNoFlow
  /\ InitNoCall

SpecSession == InitSession /\ [][NextSession]_vars

\* the threads are scheduled, and join(timeout) returns once the thread has
\* ended or the timeout has passed
SpecSessionFair ==
  /\ SpecSession
  /\ WF_vars(Worker)
  /\ WF_vars(WorkBegin)

(***************************************************************************)
(* StreamingDebateManager.stream_debate: a consumer iterating over the     *)
(* snapshots while the session runs.                                       *)
(***************************************************************************)
otherThanStream == <<clientVars, flowVars, llm, pipeVars, num_rounds, fieldVars, threadVars,
                     historyVars, gpc, drained, uiVars>>

\* stream_debate: last_state = None
StreamStart ==
  /\ spc = "none"
  /\ last_state' = EmptyDict
  /\ spc' = "test"
  /\ UNCHANGED otherThanStream

\* the while condition's left operand: not self.is_complete()
StreamTest ==
  /\ spc = "test"
  /\ spc' = IF ~_debate_complete THEN "body" ELSE "compare"
  /\ UNCHANGED <<last_state, otherThanStream>>

\* the while condition's right operand: last_state != self.debate_state
StreamCompare ==
  /\ spc = "compare"
  /\ spc' = IF last_state # debate_state THEN "body" ELSE "final"
  /\ UNCHANGED <<last_state, otherThanStream>>

\* the loop's body: the snapshot is yielded and kept when it is new; sleep
StreamBody ==
  /\ spc = "body"
  /\ ~LockHeld
  /\ LET current_state == get_current_state
     IN last_state' = IF current_state # last_state THEN current_state
                      ELSE last_state
  /\ spc' = "test"
  /\ UNCHANGED otherThanStream

\* the final yield self.get_current_state(); the iterator is exhausted
StreamFinal ==
  /\ spc = "final"
  /\ ~LockHeld
  /\ spc' = "done"
  /\ UNCHANGED <<last_state, otherThanStream>>

stream_debate ==
  \/ StreamStart
  \/ StreamTest
  \/ StreamCompare
  \/ StreamBody
  \/ StreamFinal

NextStream ==
  \/ StartDebateAsync
  \/ Worker
  \/ Work
  \/ ZombieExit
  \/ stream_debate

SpecStream == InitSession /\ [][NextStream]_vars

\* the threads are scheduled, and so is the consumer's
SpecStreamFair ==
  /\ SpecStream
  /\ WF_vars(Worker)
  /\ WF_vars(WorkBegin)
  /\ WF_vars(stream_debate)

(***************************************************************************)
(* The page (app.py): Streamlit runs the script from the top on every      *)
(* pass; st.rerun() ends the pass at once and starts the next, the locals  *)
(* of the pass being lost and st.session_state kept.                       *)
(***************************************************************************)
otherThanUi == <<clientVars, flowVars, llm, pipeVars, num_rounds, threadVars, gpc, drained,
                 streamVars>>

\* add_debate_phase's test: a phase of this type and round is recorded.
\* p.get("round", 0) is a number, so it never equals the None that
\* phase.get("round") gives for an event without a round.
PhaseRecorded(phases, phase) ==
  \E k \in 1..Len(phases) :
    /\ phases[k].type = phase.type
    /\ "round" \in DOMAIN phase
    /\ Get(phases[k], "round", 0) = phase.round

\* add_debate_phase: st.session_state.debate_phases after the call; the call
\* returns True exactly when the phase was not recorded
add_debate_phase(phases, phase) ==
  IF PhaseRecorded(phases, phase) THEN phases ELSE Append(phases, phase)

\* the first pass: the manager is created and started
UiStartDebate ==
  /\ runs = 0
  /\ StartDebateAsync

\* status = debate_manager.get_debate_status(); if status["has_updates"]
UiStatus ==
  /\ upc \in {"none", "status"}
  /\ runs > 0
  /\ ~LockHeld
  /\ ui_status' = get_debate_status
  /\ upc' = IF get_debate_status.has_updates THEN "updates" ELSE "refresh"
  /\ UNCHANGED <<new_updates, debate_phases, fieldVars, historyVars, otherThanUi>>

\* new_updates = debate_manager.get_updates(): the call takes the events off
\* the queue until it is empty; the diff puts its events in one step, so
\* the call returns the queue as it finds it
UiGetUpdates ==
  /\ upc = "updates"
  /\ new_updates' = _update_queue
  /\ _update_queue' = <<>>
  /\ delivered' = delivered \o _update_queue
  /\ upc' = "for"
  /\ UNCHANGED <<ui_status, debate_phases, debate_state, _debate_complete, _current_phase,
                 _error_state, _start_time, runs, outcome, emitted, otherThanUi>>

\* for update in new_updates: if add_debate_phase(update): st.rerun()
UiFor ==
  /\ upc = "for"
  /\ IF new_updates = <<>>
     THEN upc' = "refresh" /\ UNCHANGED <<new_updates, debate_phases>>
     ELSE LET update == Head(new_updates)
          IN /\ debate_phases' = add_debate_phase(debate_phases, update)
             /\ IF ~PhaseRecorded(debate_phases, update)
                THEN new_updates' = <<>> /\ upc' = "status"
                ELSE new_updates' = Tail(new_updates) /\ upc' = "for"
  /\ UNCHANGED <<ui_status, fieldVars, historyVars, otherThanUi>>

\* if not status["complete"]: time.sleep(2); st.rerun(); else the script ends
UiRefresh ==
  /\ upc = "refresh"
  /\ upc' = IF ~ui_status.complete THEN "status" ELSE "done"
  /\ UNCHANGED <<ui_status, new_updates, debate_phases, fieldVars, historyVars, otherThanUi>>

UiPass ==
  \/ UiStatus
  \/ UiGetUpdates
  \/ UiFor
  \/ UiRefresh

NextUi ==
  \/ UiStartDebate
  \/ Worker
  \/ Work
  \/ ZombieExit
  \/ UiPass

SpecUi == InitSession /\ [][NextUi]_vars

(***************************************************************************)
(* The task scheduler (DebateWorkflow).                                    *)
(***************************************************************************)
TaskNames == {"A", "B", "C"}
\* self.tasks keeps the order of the add_task calls
TaskOrder == <<"A", "B", "C">>
Registered == DOMAIN dependencies
\* the registered tasks satisfying Test(name), in the order of self.tasks
TasksWhere(Test(_)) ==
  LET Keep(name) == name \in Registered /\ Test(name)
  IN SelectSeq(TaskOrder, Keep)
Range(seq) == {seq[k] : k \in 1..Len(seq)}
ResultKey(name) == name \o "_result"

\* execute_workflow: up to the while loop
FlowEntry ==
  /\ fpc = "entry"
  /\ LET NoDependencies(name) == dependencies[name] = {}
     IN pending_tasks' = TasksWhere(NoDependencies)
  /\ completed_task_names' = {}
  /\ context' = context \cup {"param"}
  /\ fpc' = "loop"
  /\ UNCHANGED <<clientVars, llm, pipeVars, sessVars, dependencies, status, error, start_time,
                 tasks_to_execute, results, flowHistoryVars>>

EligibleAny(pending, completed) == pending

\* the tasks of pending_tasks whose dependencies are all completed
Eligible(pending, completed) ==
  LET Ready(name) == dependencies[name] \subseteq completed
  IN SelectSeq(pending, Ready)

\* execute_workflow: the loop's test, the choice of the batch, and the
\* coroutines of asyncio.gather created
FlowSelect ==
  /\ fpc = "loop"
  /\ LET batch == Eligible(pending_tasks, completed_task_names)
     IN IF pending_tasks = <<>>
        THEN /\ fpc' = "returned"
             /\ UNCHANGED <<tasks_to_execute, results, deadlock_logged>>
        ELSE IF batch = <<>>
        THEN /\ fpc' = "returned"
             /\ deadlock_logged' = TRUE
             /\ tasks_to_execute' = batch
             /\ UNCHANGED results
        ELSE /\ fpc' = "gather"
             /\ tasks_to_execute' = batch
             /\ results' = [name \in Range(batch) |-> "created"]
             /\ UNCHANGED deadlock_logged
  /\ UNCHANGED <<clientVars, llm, pipeVars, sessVars, dependencies, taskVars, pending_tasks,
                 completed_task_names, calls, ever_failed>>

\* WorkflowTask.execute up to the await of the task's work
TaskStart(name) ==
  /\ fpc = "gather"
  /\ name \in DOMAIN results
  /\ results[name] = "created"
  /\ status' = [status EXCEPT ![name] = "in_progress"]
  /\ start_time' = [start_time EXCEPT ![name] = "set"]
  /\ calls' = [calls EXCEPT ![name] = Min(@ + 1, MaxCalls)]
  /\ results' = [results EXCEPT ![name] = "running"]
  /\ UNCHANGED <<clientVars, llm, pipeVars, sessVars, dependencies, error, context, fpc,
                 pending_tasks, completed_task_names, tasks_to_execute,
                 ever_failed, deadlock_logged>>

\* WorkflowTask.execute: the work returns
TaskComplete(name) ==
  /\ fpc = "gather"
  /\ name \in DOMAIN results
  /\ results[name] = "running"
  /\ status' = [status EXCEPT ![name] = "completed"]
  /\ results' = [results EXCEPT ![name] = "ok"]
  /\ UNCHANGED <<clientVars, llm, pipeVars, sessVars, dependencies, error, start_time, context,
                 fpc, pending_tasks, completed_task_names, tasks_to_execute,
                 flowHistoryVars>>

\* WorkflowTask.execute: the work raises
TaskFail(name) ==
  /\ fpc = "gather"
  /\ name \in DOMAIN results
  /\ results[name] = "running"
  /\ status' = [status EXCEPT ![name] = "failed"]
  /\ error' = [error EXCEPT ![name] = "error"]
  /\ results' = [results EXCEPT ![name] = "exception"]
  /\ ever_failed' = ever_failed \cup {name}
  /\ UNCHANGED <<clientVars, llm, pipeVars, sessVars, dependencies, start_time, context, fpc,
                 pending_tasks, completed_task_names, tasks_to_execute, calls,
                 deadlock_logged>>

\* "Remove executed tasks from pending": the tasks not completed stay
StillPending(pending, completed) ==
  LET NotCompleted(name) == name \notin completed
  IN SelectSeq(pending, NotCompleted)

\* execute_workflow: gather has returned; the results are processed and the
\* pending list rebuilt
FlowProcess ==
  /\ fpc = "gather"
  /\ \A name \in DOMAIN results : results[name] \in {"ok", "exception"}
  /\ LET succeeded == {name \in DOMAIN results : results[name] = "ok"}
         failed == {name \in DOMAIN results : results[name] = "exception"}
         completed == completed_task_names \cup succeeded
         new_status == [name \in Registered |->
                          IF name \in failed THEN "failed" ELSE status[name]]
         kept == StillPending(pending_tasks, completed)
         NewlyEligible(name) == /\ name \notin completed
                                /\ new_status[name] = "pending"
                                /\ name \notin Range(kept)
     IN /\ status' = new_status
        /\ error' = [name \in Registered |->
                       IF name \in failed THEN "error" ELSE error[name]]
        /\ completed_task_names' = completed
        /\ context' = context \cup {ResultKey(name) : name \in succeeded}
        /\ pending_tasks' = kept \o TasksWhere(NewlyEligible)
  /\ fpc' = "loop"
  /\ UNCHANGED <<clientVars, llm, pipeVars, sessVars, dependencies, start_time,
                 tasks_to_execute, results, flowHistoryVars>>

\* DebateWorkflow.get_status
get_status ==
  [name \in Registered |->
     [status |-> status[name], start_time |-> start_time[name],
      error |-> error[name]]]

NextWorkflow ==
  \/ FlowEntry
  \/ FlowSelect
  \/ \E name \in TaskNames : TaskStart(name)
  \/ \E name \in TaskNames : TaskComplete(name)
  \/ \E name \in TaskNames : TaskFail(name)
  \/ FlowProcess

\* the graphs: two or three tasks, each depending on any of the names
Graphs ==
  UNION {[tasks -> SUBSET TaskNames] : tasks \in {{"A", "B"}, TaskNames}}

\* server_debug.py's workflow: task3 depends on task1 and task2
GraphJoin == [A |-> {}, B |-> {}, C |-> {"A", "B"}]
GraphCycle == [A |-> {"B"}, B |-> {"A"}]

InitWorkflow ==
  /\ llm = PlainScript
  /\ num_rounds = 1
  /\ state = InitialState(num_rounds)
  /\ node = "idle"
  /\ InitFields
  /\ dependencies \in Graphs
  /\ status = [name \in Registered |-> "pending"]
  /\ error = [name \in Registered |-> None]
  /\ start_time = [name \in Registered |-> None]
  /\ context = {}
  /\ fpc = "entry"
  /\ pending_tasks = <<>>
  /\ completed_task_names = {}
  /\ tasks_to_execute = <<>>
  /\ results = EmptyDict
  /\ calls = [name \in Registered |-> 0]
  /\ ever_failed = {}
  /\ deadlock_logged = FALSE
  /\ InitNoCall

SpecWorkflow == InitWorkflow /\ [][NextWorkflow]_vars

\* the event loop keeps running the coroutines; whether a task's work returns
\* or raises is the work's own affair
SpecWorkflowFair == SpecWorkflow /\ WF_vars(NextWorkflow)

(***************************************************************************)
(* The model API client (LLMAPIClient.generate_arguments): one call under  *)
(* @retry(stop_after_attempt(3), retry_if_exception_type((RequestError,    *)
(* TimeoutException)), reraise=True).                                      *)
(***************************************************************************)
\* stop_after_attempt(3)
StopAfterAttempt == 3

\* httpx's exceptions that are RequestError or TimeoutException instances
TransportErrors == {"RequestError", "ConnectError", "TimeoutException", "ReadTimeout"}
\* the other ways an attempt raises: the Exception for a status code other
\* than 200, response.json() failing, the response lacking "text"
OtherErrors == {"Exception", "JSONDecodeError", "KeyError"}

RetryIfAny(exception) == TRUE
\* retry_if_exception_type((httpx.RequestError, httpx.TimeoutException))
RetryIf(exception) == exception \in TransportErrors

\* the decorated function is called: the first attempt starts
ClientCall ==
  /\ cpc = "idle"
  /\ cpc' = "attempt"
  /\ UNCHANGED <<llm, pipeVars, sessVars, flowVars, attempts, propagated>>

\* the attempt returns response_data["text"]
AttemptReturns ==
  /\ cpc = "attempt"
  /\ attempts' = Append(attempts, "ok")
  /\ cpc' = "returned"
  /\ UNCHANGED <<llm, pipeVars, sessVars, flowVars, propagated>>

\* the attempt raises; the decorator waits and retries, or re-raises
AttemptRaises(exception) ==
  /\ cpc = "attempt"
  /\ attempts' = Append(attempts, exception)
  /\ IF RetryIf(exception) /\ Len(attempts') < StopAfterAttempt
     THEN cpc' = "waiting" /\ propagated' = propagated
     ELSE cpc' = "raised" /\ propagated' = exception
  /\ UNCHANGED <<llm, pipeVars, sessVars, flowVars>>

\* wait_exponential's sleep is over: the next attempt starts
WaitDone ==
  /\ cpc = "waiting"
  /\ cpc' = "attempt"
  /\ UNCHANGED <<llm, pipeVars, sessVars, flowVars, attempts, propagated>>

NextClient ==
  \/ ClientCall
  \/ AttemptReturns
  \/ \E exception \in TransportErrors \cup OtherErrors : AttemptRaises(exception)
  \/ WaitDone

InitClient ==
  /\ llm = PlainScript
  /\ num_rounds = 1
  /\ state = InitialState(num_rounds)
  /\ node = "idle"
  /\ InitFields
  /\ InitNoFlow
  /\ InitNoCall

SpecClient == InitClient /\ [][NextClient]_vars

(***************************************************************************)
(* The claims.                                                             *)
(***************************************************************************)
\* C1: in a run in which no stage raises, when evaluate_debate starts the
\* rounds list holds exactly max_rounds records and each of them has all of
\* pro_argument, pro_fact_check, con_argument and con_fact_check.
C1_RoundsComplete ==
  node = "evaluate_debate" =>
    /\ Len(state.rounds) = state.max_rounds
    /\ \A i \in 1..Len(state.rounds) :
         \A k \in 1..Len(RoundFields) : RoundFields[k] \in DOMAIN state.rounds[i]

\* C2: current_round never exceeds max_rounds, and a step changes it only by
\* adding 1, only in check_con_facts, and only with the con fact check of the
\* round it leaves stored.
C2_RoundAdvance ==
  [][ /\ state.current_round <= state.max_rounds
      /\ state'.current_round <= state'.max_rounds
      /\ state'.current_round # state.current_round =>
           /\ node = "check_con_facts"
           /\ state'.current_round = state.current_round + 1
           /\ "con_fact_check" \in DOMAIN state'.rounds[state.current_round + 1]
    ]_vars

C2_Witness ==
  /\ node = "pro_conclusion_node"
  /\ state.max_rounds >= 2
  /\ state.current_round = state.max_rounds

\* the (type, round) pair of an event; an event without a round has round 0
Tag(ev) == <<ev.type, Get(ev, "round", 0)>>

\* C3: over the lifetime of a session no two events put on the update queue
\* have the same (type, round) pair.
C3_NoDuplicateEvents ==
  \A i, j \in 1..Len(emitted) :
    i # j => Tag(emitted[i].event) # Tag(emitted[j].event)

\* C4: with A and B without dependencies and C depending on both, if A's work
\* has failed then, execute_workflow having returned, C is not COMPLETED and B
\* is COMPLETED.
C4_FailureIsolated ==
  (fpc = "returned" /\ dependencies = GraphJoin /\ "A" \in ever_failed) =>
    /\ status["C"] # "completed"
    /\ status["B"] = "completed"

\* C5: for the cycle of A and B, execute_workflow returns having reported a
\* deadlock.
C5_CycleReported ==
  (fpc = "returned" /\ dependencies = GraphCycle) => deadlock_logged

\* C6: a run whose join expired ends with complete = true, the error
\* "Debate timed out", current_phase = "timeout", and the snapshot still the
\* initial state, not a pipeline result.
C6_TimeoutReported ==
  (wpc = "dead" /\ outcome = "timeout") =>
    /\ get_debate_status.complete = TRUE
    /\ get_debate_status.error = "Debate timed out"
    /\ get_debate_status.current_phase = "timeout"
    /\ debate_state = InitialState(num_rounds)

C6_Witness ==
  /\ wpc = "dead"
  /\ outcome = "timeout"
  /\ _error_state = "Debate timed out"

\* the executions of the pipeline in progress in the session
InProgress == zombies + (IF tpc = "invoking" THEN 1 ELSE 0)

\* C7: at most one pipeline execution of the session is in progress at any
\* time.
C7_SingleExecution == InProgress <= 1

\* C8: every started run eventually sets the completion flag.
C8_RunCompletes == WorkerAlive ~> (_debate_complete = TRUE)

C8_Witness ==
  /\ wpc = "dead"
  /\ outcome = "exec_error"
  /\ _debate_complete = TRUE

\* C9: once a stage has produced the introduction, its event is on the update
\* queue (or drained) while the later stages are still running.
C9_IncrementalEvents ==
  (tpc = "invoking" /\ node # "set_debate" /\ state.introduction # "") =>
    \E k \in 1..Len(emitted) :
      emitted[k].run = runs /\ emitted[k].event.type = "introduction"

\* the (type, round) pairs of the events the latest run has put, in order
RunTags ==
  LET OfRun(e) == e.run = runs
      mine == SelectSeq(emitted, OfRun)
  IN [k \in 1..Len(mine) |-> Tag(mine[k].event)]

RECURSIVE RoundTags(_, _)
RoundTags(i, n) ==
  IF i > n THEN <<>>
  ELSE [k \in 1..Len(RoundFields) |-> <<RoundFields[k], i>>] \o RoundTags(i + 1, n)

\* introduction, the four tags of each of n rounds, conclusions, evaluation
CanonicalTags(n) ==
  <<<<"introduction", 0>>>> \o RoundTags(1, n)
    \o <<<<"pro_conclusion", 0>>, <<"con_conclusion", 0>>, <<"evaluation", 0>>>>

\* C10 as stated: the diff of a run with max_rounds rounds puts exactly
\* introduction, the four events of each round, both conclusions, evaluation.
C10_FullSequence ==
  wpc = "publish" => RunTags = CanonicalTags(num_rounds)

\* the result populates the field a tag names
Populated(result, tag) ==
  IF tag[2] > 0 THEN tag[1] \in DOMAIN result.rounds[tag[2]]
  ELSE IF tag[1] = "evaluation" THEN result.evaluation # EvalEmpty
  ELSE result[tag[1]] # ""

\* C10 (amended): the diff of a run puts one event for each field its result
\* populates, in the order introduction, rounds ascending with pro_argument,
\* pro_fact_check, con_argument, con_fact_check, then pro_conclusion,
\* con_conclusion, evaluation; the evaluation event carries a winner among
\* Pro, Con, Tie and two non-negative integer scores; a result with every
\* field populated gives the whole sequence.
C10_DiffOrder ==
  wpc = "publish" =>
    LET result == box.result
        Has(tag) == Populated(result, tag)
        all == CanonicalTags(Len(result.rounds))
    IN /\ RunTags = SelectSeq(all, Has)
       /\ Len(result.rounds) = num_rounds
       /\ (\A k \in 1..Len(all) : Has(all[k])) => RunTags = CanonicalTags(num_rounds)
       /\ \A k \in 1..Len(emitted) :
            emitted[k].event.type = "evaluation" =>
              /\ emitted[k].event.winner \in {"Pro", "Con", "Tie"}
              /\ emitted[k].event.pro_score \in Nat
              /\ emitted[k].event.con_score \in Nat

C10_Witness ==
  /\ wpc = "publish"
  /\ num_rounds = 2
  /\ Len(RunTags) = 12
  /\ RunTags[12] = <<"evaluation", 0>>

\* the events put on the queue so far, in order
EmittedEvents == [k \in 1..Len(emitted) |-> emitted[k].event]

\* C11: get_updates is an idempotent drain: the events returned so far, those
\* the running call holds and those still queued are the events put, each once
\* and in the order put; a call returns everything put and not yet returned,
\* hence the empty list when nothing was put since the last return.
C11_IdempotentDrain ==
  [][ /\ EmittedEvents' = delivered' \o drained' \o _update_queue'
      /\ (gpc = "loop" /\ gpc' = "none") =>
           /\ delivered' = EmittedEvents
           /\ Len(EmittedEvents) = Len(delivered) => delivered' = delivered
    ]_vars

C11_Witness ==
  /\ gpc = "loop"
  /\ _debate_complete = TRUE
  /\ wpc = "dead"
  /\ delivered # <<>>
  /\ delivered = EmittedEvents
  /\ drained = <<>>

\* the session-level fields the lock is meant to guard
GuardedFields ==
  <<debate_state, _current_phase, _error_state, _start_time, _debate_complete>>

\* C12: a step that writes the snapshot, the phase, the error, the start time
\* or the completion flag is made while _debate_lock is held.
C12_LockDiscipline == [][GuardedFields' # GuardedFields => LockHeld]_vars

\* C13: execute_workflow returns, whatever the graph and whichever works fail.
C13_WorkflowTerminates == <>(fpc = "returned")

\* the step in which the work of task name is invoked
Invoked(name) ==
  /\ name \in DOMAIN results
  /\ name \in DOMAIN results'
  /\ results[name] = "created"
  /\ results'[name] = "running"

\* C14: when a task's work is invoked every dependency of the task is
\* COMPLETED and has its "<dep>_result" in the context, and the context holds
\* the result of no task that is not COMPLETED.
C14_DependenciesFirst ==
  [][\A name \in TaskNames :
       Invoked(name) =>
         /\ dependencies[name] \subseteq Registered
         /\ \A dep \in dependencies[name] :
              status[dep] = "completed" /\ ResultKey(dep) \in context
         /\ \A other \in Registered :
              ResultKey(other) \in context => status[other] = "completed"
    ]_vars

C14_Witness ==
  /\ dependencies = GraphJoin
  /\ "C" \in DOMAIN results
  /\ results["C"] = "running"
  /\ {"param", "A_result", "B_result"} \subseteq context

\* C15: execute_workflow having returned, get_status reports a task whose
\* work has raised as failed with its error, and a task whose work was never
\* invoked as pending with no start time.
C15_StatusDistinguishes ==
  fpc = "returned" =>
    \A name \in Registered :
      /\ name \in ever_failed =>
           /\ get_status[name].status = "failed"
           /\ get_status[name].error # None
      /\ calls[name] = 0 =>
           /\ get_status[name].status = "pending"
           /\ get_status[name].start_time = None

\* C16: a run in which a stage, or the worker before the stages, raised ends
\* with the completion flag true and an error text in _error_state, and the
\* consumer's calls can still be made.
C16_ErrorsContained ==
  (wpc = "dead" /\ outcome \in {"exec_error", "init_error"}) =>
    /\ get_debate_status.complete = TRUE
    /\ get_debate_status.error \in {"Error in debate execution", "Error initializing debate"}
    /\ gpc = "none" => ENABLED GetUpdatesBegin

C16_Witness ==
  /\ wpc = "dead"
  /\ outcome = "exec_error"
  /\ _error_state = "Error in debate execution"
  /\ gpc = "none"

\* C17: the scores evaluate_debate stores are non-negative integers, the
\* winner is Tie when they differ by at most 5 and the side with the higher
\* score otherwise, and a text in which neither pattern matches gives 0, 0
\* and Tie.
C17_WinnerRule ==
  node = "END" =>
    LET pro == state.pro_score
        con == state.con_score
        gap == IF pro >= con THEN pro - con ELSE con - pro
    IN /\ pro \in Nat
       /\ con \in Nat
       /\ gap <= 5 => state.winner = "Tie"
       /\ (gap > 5 /\ pro > con) => state.winner = "Pro"
       /\ (gap > 5 /\ con > pro) => state.winner = "Con"
       /\ (Search(state.evaluation, "pro") < 0 /\ Search(state.evaluation, "con") < 0) =>
            (pro = 0 /\ con = 0 /\ state.winner = "Tie")

C17_Witness ==
  /\ node = "END"
  /\ state.evaluation = ScoredText(12, 6)
  /\ state.winner = "Pro"

\* C18: a call makes at most 3 attempts; every attempt followed by another
\* one ended in a transport or timeout failure; any other failure is raised
\* to the caller by the attempt it ended, and so is a transport failure of
\* the third attempt.
C18_RetryPolicy ==
  LET n == Len(attempts)
  IN /\ n <= 3
     /\ \A k \in 1..(n - 1) : attempts[k] \in TransportErrors
     /\ (n > 0 /\ attempts[n] \in OtherErrors) =>
          (cpc = "raised" /\ propagated = attempts[n])
     /\ (n = 3 /\ attempts[n] \in TransportErrors) =>
          (cpc = "raised" /\ propagated = attempts[n])
     /\ cpc = "raised" =>
          (attempts[n] \in OtherErrors \/ n = 3)

C18_Witness ==
  /\ cpc = "raised"
  /\ Len(attempts) = 3
  /\ propagated = "TimeoutException"

\* what a fact-check stage stores for an argument: the checker's text, or the
\* text its failure is turned into
FactCheckTexts == {"f", "Error in fact checking"}

\* C19: a fact-check stage that has an argument to check never raises,
\* whether the fact checker's call fails or not: it stores a text in the
\* round's fact-check field and the pipeline goes on to the next stage,
\* check_con_facts advancing current_round.
C19_FactCheckNotFatal ==
  [][ LET i == state.current_round + 1
      IN /\ (node = "check_pro_facts" /\ HasArgument(state, "pro_argument")) =>
              /\ node' = "generate_con_argument"
              /\ "pro_fact_check" \in DOMAIN state'.rounds[i]
              /\ state'.rounds[i].pro_fact_check \in FactCheckTexts
         /\ (node = "check_con_facts" /\ HasArgument(state, "con_argument")) =>
              /\ node' \in {"generate_pro_argument", "pro_conclusion_node"}
              /\ "con_fact_check" \in DOMAIN state'.rounds[i]
              /\ state'.rounds[i].con_fact_check \in FactCheckTexts
              /\ state'.current_round = state.current_round + 1
    ]_vars

\* a run in which every call of the fact checker failed has reached END
C19_Witness ==
  /\ node = "END"
  /\ Len(state.rounds) = 2
  /\ \A i \in 1..2 :
       /\ Get(state.rounds[i], "pro_fact_check", "") = "Error in fact checking"
       /\ Get(state.rounds[i], "con_fact_check", "") = "Error in fact checking"

\* the fields of a round record were set in the order of RoundFields
InOrder(round_data) ==
  \A k \in 1..Len(RoundFields) :
    RoundFields[k] \in DOMAIN round_data =>
      \A j \in 1..(k - 1) : RoundFields[j] \in DOMAIN round_data

\* no round record and no field of one is lost in the step
NothingCleared ==
  /\ Len(state'.rounds) >= Len(state.rounds)
  /\ \A i \in 1..Len(state.rounds) :
       /\ DOMAIN state.rounds[i] \subseteq DOMAIN state'.rounds[i]
       /\ \A f \in DOMAIN state.rounds[i] :
            state.rounds[i][f] # "" => state'.rounds[i][f] # ""

\* C20: in every round record a field is set only if every earlier field of
\* pro_argument, pro_fact_check, con_argument, con_fact_check is set, and a
\* field that is set is never cleared.
C20_FieldOrder ==
  [][ /\ \A i \in 1..Len(state'.rounds) : InOrder(state'.rounds[i])
      /\ NothingCleared
    ]_vars

\* C21: in a step of the pipeline the rounds list does not get shorter, and
\* no populated field (the introduction, a field of a round record, a
\* conclusion, the evaluation, the winner) gets a different value.
C21_NoOverwrite ==
  [][ /\ Len(state'.rounds) >= Len(state.rounds)
      /\ \A f \in {"introduction", "pro_conclusion", "con_conclusion"} :
           state[f] # "" => state'[f] = state[f]
      /\ state.evaluation # EvalEmpty => state'.evaluation = state.evaluation
      /\ state.winner # None => state'.winner = state.winner
      /\ \A i \in 1..Len(state.rounds) :
           \A f \in DOMAIN state.rounds[i] :
             state.rounds[i][f] # "" =>
               /\ f \in DOMAIN state'.rounds[i]
               /\ state'.rounds[i][f] = state.rounds[i][f]
    ]_vars

\* the stage that follows each stage but check_con_facts in the table
TableNext ==
  [set_debate |-> "generate_pro_argument",
   generate_pro_argument |-> "check_pro_facts",
   check_pro_facts |-> "generate_con_argument",
   generate_con_argument |-> "check_con_facts",
   pro_conclusion_node |-> "con_conclusion_node",
   con_conclusion_node |-> "evaluate_debate",
   evaluate_debate |-> "END"]

\* C22: a stage that returns is followed by the stage the table gives;
\* check_con_facts is followed by generate_pro_argument if and only if the
\* current_round it leaves is below max_rounds, and by pro_conclusion_node
\* otherwise; nothing follows END, and nothing leads back to set_debate or
\* from the conclusions back to the rounds.
C22_TransitionTable ==
  [][ /\ node' # node
      /\ node \in DOMAIN TableNext \cup {"check_con_facts"}
      /\ node' # "raised" =>
           IF node = "check_con_facts"
           THEN /\ node' \in {"generate_pro_argument", "pro_conclusion_node"}
                /\ node' = "generate_pro_argument" <=>
                     state'.current_round < state'.max_rounds
           ELSE node' = TableNext[node]
    ]_vars

C22_Witness ==
  /\ node = "END"
  /\ state.max_rounds = 2
  /\ state.current_round = 2
  /\ Len(state.rounds) = 2

\* the argument of the acting side for round current_round is absent or empty
NoArgument(s, arg_key) ==
  \/ s.current_round >= Len(s.rounds)
  \/ arg_key \notin DOMAIN s.rounds[s.current_round + 1]
  \/ s.rounds[s.current_round + 1][arg_key] = ""

\* C23: when the acting side has no argument for round current_round, the
\* fact-check stage returns the empty update whatever the fact checker would
\* answer, and the step changes no field of the state, current_round included.
C23_NoArgumentNoOp ==
  [][ /\ node = "check_pro_facts" /\ NoArgument(state, "pro_argument") =>
           /\ \A r \in llm.fact_check : fact_check_pro(state, r) = EmptyDict
           /\ state' = state
      /\ node = "check_con_facts" /\ NoArgument(state, "con_argument") =>
           /\ \A r \in llm.fact_check : fact_check_con(state, r) = EmptyDict
           /\ state' = state
    ]_vars

C23_Witness ==
  /\ node = "generate_pro_argument"
  /\ state.current_round = 0
  /\ Len(state.rounds) = 1
  /\ DOMAIN state.rounds[1] = {"pro_argument", "con_argument"}
  /\ state.rounds[1].pro_argument = ""
  /\ state.rounds[1].con_argument = ""

\* the fields each stage is said to change
OwnFields ==
  [set_debate |-> {"introduction"},
   generate_pro_argument |-> {"rounds"},
   check_pro_facts |-> {"rounds"},
   generate_con_argument |-> {"rounds"},
   check_con_facts |-> {"rounds", "current_round"},
   pro_conclusion_node |-> {"pro_conclusion"},
   con_conclusion_node |-> {"con_conclusion"},
   evaluate_debate |-> {"evaluation", "pro_score", "con_score", "winner"}]

\* the fields of the updates the stage at hand can return
ReturnedFields ==
  CASE node = "set_debate" ->
         UNION {DOMAIN set_debate(state, r) : r \in llm.introduction}
    [] node = "generate_pro_argument" /\ ~ArgumentIndexError(state) ->
         UNION {DOMAIN generate_argument(state, "pro", r) : r \in llm.pro_argument}
    [] node = "check_pro_facts" ->
         UNION {DOMAIN fact_check_pro(state, r) : r \in llm.fact_check}
    [] node = "generate_con_argument" /\ ~ArgumentIndexError(state) ->
         UNION {DOMAIN generate_argument(state, "con", r) : r \in llm.con_argument}
    [] node = "check_con_facts" ->
         UNION {DOMAIN fact_check_con(state, r) : r \in llm.fact_check}
    [] node = "pro_conclusion_node" ->
         UNION {DOMAIN generate_conclusion(state, "pro", r) : r \in llm.pro_conclusion}
    [] node = "con_conclusion_node" ->
         UNION {DOMAIN generate_conclusion(state, "con", r) : r \in llm.con_conclusion}
    [] node = "evaluate_debate" ->
         UNION {DOMAIN evaluate_debate(state, r) : r \in llm.evaluation}
    [] OTHER -> {}

\* C24: every stage returns only the fields it changes (set_debate the
\* introduction alone, the argument and fact-check stages the rounds, with
\* current_round for check_con_facts, the conclusions and the evaluation
\* their own fields), and the merged state differs from the state before
\* the stage in those fields only.
C24_PartialUpdate ==
  [][ /\ node \in DOMAIN OwnFields => ReturnedFields \subseteq OwnFields[node]
      /\ node \in DOMAIN OwnFields =>
           \A f \in (DOMAIN state) \ OwnFields[node] : state'[f] = state[f]
    ]_vars

\* C25: when the diff of the initial snapshot and the result of a finished
\* pipeline puts at least one event, the phase marker it leaves is the type
\* of the last event it put.
C25_PhaseIsLastTag ==
  node = "END" =>
    LET updates == _queue_state_updates(InitialState(state.max_rounds), state)
        events == Events(updates)
    IN events # <<>> =>
         LastPhase(updates, "initializing") = events[Len(events)].type

\* C26: once the completion flag is true, it is true ever after, whatever
\* calls of start_debate_async and polls follow.
C26_CompleteMonotone ==
  [][ _debate_complete = TRUE => _debate_complete' = TRUE ]_vars

\* the events put by run r, in the order put
RunEvents(r) ==
  LET OfRun(e) == e.run = r
      puts == SelectSeq(emitted, OfRun)
  IN [k \in 1..Len(puts) |-> puts[k].event]

\* C27: whenever get_debate_status reports complete = true with no error,
\* the events of the run are all on record as put, and get_current_state
\* returns the result of the pipeline; and no event is put while the flag is
\* true.
C27_CompleteMeansPublished ==
  /\ [](get_debate_status.complete /\ get_debate_status.error = None =>
          /\ ~box.exception
          /\ Truthy(box.result)
          /\ get_current_state = box.result
          /\ RunEvents(runs) =
               Events(_queue_state_updates(InitialState(num_rounds), box.result)))
  /\ [][ _debate_complete = TRUE =>
           emitted' = emitted /\ Len(_update_queue') <= Len(_update_queue) ]_vars

C27_Witness ==
  /\ get_debate_status.complete
  /\ get_debate_status.error = None
  /\ runs = 2
  /\ wpc = "finally"
  /\ RunEvents(1) # <<>>
  /\ RunEvents(2) = RunEvents(1)
  /\ get_current_state.introduction = "i"

\* C28: within one execute_workflow call no task's work is invoked twice: a
\* task that is COMPLETED or FAILED is not set to IN_PROGRESS again.
C28_AtMostOnce ==
  [][ \A name \in DOMAIN status :
        status[name] \in {"completed", "failed"} =>
          /\ status'[name] # "in_progress"
          /\ calls'[name] = calls[name]
    ]_vars

\* C29: an iteration of stream_debate under way when the run is complete
\* comes to its end, whatever the run's outcome was.
C29_StreamTerminates ==
  (spc \in {"test", "compare", "body", "final"} /\ _debate_complete = TRUE)
    ~> (spc = "done")

\* an entry of debate_phases has the event's type and round
Shown(event) ==
  \E k \in 1..Len(debate_phases) :
    /\ debate_phases[k].type = event.type
    /\ Get(debate_phases[k], "round", 0) = Get(event, "round", 0)

\* C30: at the start of a pass and when the script has ended, every event a
\* get_updates call has returned has an entry of its type and round in
\* debate_phases; when the script ends after the run's completion, so has
\* every event emitted.
C30_NoEventLost ==
  /\ upc \in {"status", "done"} =>
       \A k \in 1..Len(delivered) : Shown(delivered[k])
  /\ upc = "done" =>
       \A k \in 1..Len(emitted) : Shown(emitted[k].event)

====
